---------------------------- MODULE Spec2Model ----------------------------
(***************************************************************************)
(* A model of epub_to_txt.py: the gap-preserving text normalizer           *)
(* (clean_text_preserving_gaps), the spine resolver                        *)
(* (iter_documents_in_order), the conversion of one book (epub_to_txt),    *)
(* batch mode (convert_directory) and the command line (main).             *)
(*                                                                         *)
(* Text is a sequence of one-character strings, so that splitting,         *)
(* trimming and joining are computed as Python computes them.              *)
(***************************************************************************)
EXTENDS Naturals, Sequences, FiniteSets

VARIABLES
    \* clean_text_preserving_gaps
    raw_text, lines, line_idx, cleaned, previous_blank, clean_result,
    clean_pc, clean_pass, first_result,
    \* iter_documents_in_order
    book, seen_ids, emitted, spine_idx, item_idx, spine_pc,
    \* epub_to_txt
    ebook, resolved, text_content, written, epub_pc,
    \* convert_directory
    input_is_dir, dir_listing, output_dir_exists, epub_files, file_idx,
    out_files, converted, printed_no_files, failed_at, dir_pc,
    \* main
    args, called, main_pc

cleanVars == <<raw_text, lines, line_idx, cleaned, previous_blank,
               clean_result, clean_pc, clean_pass, first_result>>
spineVars == <<book, seen_ids, emitted, spine_idx, item_idx, spine_pc>>
epubVars  == <<ebook, resolved, text_content, written, epub_pc>>
dirVars   == <<input_is_dir, dir_listing, output_dir_exists, epub_files,
               file_idx, out_files, converted, printed_no_files, failed_at,
               dir_pc>>
mainVars  == <<args, called, main_pc>>
vars == <<cleanVars, spineVars, epubVars, dirVars, mainVars>>

\* What each part of the program leaves alone: the other parts' state.
notClean == <<spineVars, epubVars, dirVars, mainVars>>
notSpine == <<cleanVars, epubVars, dirVars, mainVars>>
notEpub  == <<cleanVars, spineVars, dirVars, mainVars>>
notDir   == <<cleanVars, spineVars, epubVars, mainVars>>
notMain  == <<cleanVars, spineVars, epubVars, dirVars>>

(***************************************************************************)
(* Bounds of the model.                                                    *)
(***************************************************************************)
MaxTextLen == 7
MaxSpine == 2

(***************************************************************************)
(* Characters and the str methods the program uses.                        *)
(***************************************************************************)
NL == "\n"
CR == "\r"
Chars == {"a", " ", NL, CR}

\* str.isspace, on the model's alphabet
IsSpace(c) == c \in {" ", NL, CR}

\* the line boundaries of str.splitlines, on the model's alphabet
IsLineBreak(c) == c \in {NL, CR}

RECURSIVE SplitFrom(_, _, _, _)
SplitFrom(s, i, cur, acc) ==
    IF i > Len(s)
    THEN IF cur # <<>> THEN Append(acc, cur) ELSE acc
    ELSE IF s[i] = CR /\ i < Len(s) /\ s[i + 1] = NL
         THEN SplitFrom(s, i + 2, <<>>, Append(acc, cur))
         ELSE IF IsLineBreak(s[i])
              THEN SplitFrom(s, i + 1, <<>>, Append(acc, cur))
              ELSE SplitFrom(s, i + 1, Append(cur, s[i]), acc)

\* str.splitlines(): "\r\n" is one boundary, a final boundary opens no line
SplitLines(s) == SplitFrom(s, 1, <<>>, <<>>)

RECURSIVE LStrip(_)
LStrip(s) ==
    IF s # <<>> /\ IsSpace(s[1]) THEN LStrip(Tail(s)) ELSE s

RECURSIVE RStrip(_)
RStrip(s) ==
    IF s # <<>> /\ IsSpace(s[Len(s)])
    THEN RStrip(SubSeq(s, 1, Len(s) - 1))
    ELSE s

\* str.strip()
Strip(s) == RStrip(LStrip(s))

RECURSIVE Join(_, _)
\* sep.join(parts)
Join(sep, parts) ==
    IF parts = <<>> THEN <<>>
    ELSE IF Len(parts) = 1 THEN parts[1]
         ELSE parts[1] \o sep \o Join(sep, Tail(parts))

(***************************************************************************)
(* clean_text_preserving_gaps                                              *)
(***************************************************************************)
\* Every text of at most MaxTextLen characters: what soup.get_text returns.
Texts == UNION {[1..n -> Chars] : n \in 0..MaxTextLen}

\* LoopBody without the previous_blank test: every blank line is kept.
LoopBodyKeepsRuns(acc, line) ==
    LET stripped == Strip(line)
    IN  IF stripped = <<>>
        THEN [cleaned |-> IF acc.cleaned # <<>>
                          THEN Append(acc.cleaned, <<>>)
                          ELSE acc.cleaned,
              previous_blank |-> TRUE]
        ELSE [cleaned |-> Append(acc.cleaned, stripped),
              previous_blank |-> FALSE]

\* LoopBody with the previous_blank test inverted.
LoopBodyFlagInverted(acc, line) ==
    LET stripped == Strip(line)
    IN  IF stripped = <<>>
        THEN [cleaned |-> IF acc.cleaned # <<>> /\ acc.previous_blank
                          THEN Append(acc.cleaned, <<>>)
                          ELSE acc.cleaned,
              previous_blank |-> TRUE]
        ELSE [cleaned |-> Append(acc.cleaned, stripped),
              previous_blank |-> FALSE]

\* One pass of the body of "for line in lines".
LoopBody(acc, line) ==
    LET stripped == Strip(line)
    IN  IF stripped = <<>>
        THEN [cleaned |-> IF acc.cleaned # <<>> /\ ~acc.previous_blank
                          THEN Append(acc.cleaned, <<>>)
                          ELSE acc.cleaned,
              previous_blank |-> TRUE]
        ELSE [cleaned |-> Append(acc.cleaned, stripped),
              previous_blank |-> FALSE]

\* JoinAndStrip without the final strip.
JoinOnly(cl) == Join(<<NL>>, cl)

\* JoinAndStrip with lstrip in place of strip.
JoinAndLStrip(cl) == LStrip(Join(<<NL>>, cl))

\* return "\n".join(cleaned).strip()
JoinAndStrip(cl) == Strip(Join(<<NL>>, cl))

InitClean ==
    /\ raw_text \in Texts
    /\ lines = <<>>
    /\ line_idx = 0
    /\ cleaned = <<>>
    /\ previous_blank = FALSE
    /\ clean_result = <<>>
    /\ clean_pc = "start"
    /\ clean_pass = 1
    /\ first_result = <<>>

IdleClean ==
    /\ raw_text = <<>>
    /\ lines = <<>>
    /\ line_idx = 0
    /\ cleaned = <<>>
    /\ previous_blank = FALSE
    /\ clean_result = <<>>
    /\ clean_pc = "idle"
    /\ clean_pass = 1
    /\ first_result = <<>>

\* lines = raw_text.splitlines(); cleaned = []; previous_blank = False
CleanSplit ==
    /\ clean_pc = "start"
    /\ lines' = SplitLines(raw_text)
    /\ line_idx' = 1
    /\ cleaned' = <<>>
    /\ previous_blank' = FALSE
    /\ clean_pc' = "loop"
    /\ UNCHANGED <<raw_text, clean_result, clean_pass, first_result>>
    /\ UNCHANGED notClean

\* one iteration of the line loop
CleanLoop ==
    /\ clean_pc = "loop"
    /\ line_idx <= Len(lines)
    /\ LET r == LoopBody([cleaned |-> cleaned,
                          previous_blank |-> previous_blank],
                         lines[line_idx])
       IN  /\ cleaned' = r.cleaned
           /\ previous_blank' = r.previous_blank
    /\ line_idx' = line_idx + 1
    /\ UNCHANGED <<raw_text, lines, clean_result, clean_pc, clean_pass,
                   first_result>>
    /\ UNCHANGED notClean

\* the loop is exhausted: join, strip, return
CleanReturn ==
    /\ clean_pc = "loop"
    /\ line_idx > Len(lines)
    /\ clean_result' = JoinAndStrip(cleaned)
    /\ clean_pc' = "done"
    /\ UNCHANGED <<raw_text, lines, line_idx, cleaned, previous_blank,
                   clean_pass, first_result>>
    /\ UNCHANGED notClean

\* the normalization is run once more, on the text it returned
CleanAgain ==
    /\ clean_pc = "done"
    /\ clean_pass = 1
    /\ first_result' = clean_result
    /\ raw_text' = clean_result
    /\ clean_pass' = 2
    /\ clean_pc' = "start"
    /\ UNCHANGED <<lines, line_idx, cleaned, previous_blank, clean_result>>
    /\ UNCHANGED notClean

NextClean == CleanSplit \/ CleanLoop \/ CleanReturn \/ CleanAgain

RECURSIVE FoldLines(_, _)
FoldLines(acc, ls) ==
    IF ls = <<>> THEN acc ELSE FoldLines(LoopBody(acc, ls[1]), Tail(ls))

\* The whole of the function after get_text, as one value.
CleanText(raw) ==
    JoinAndStrip(FoldLines([cleaned |-> <<>>, previous_blank |-> FALSE],
                           SplitLines(raw)).cleaned)

(***************************************************************************)
(* The package read by epub.read_epub: a spine and the items.              *)
(***************************************************************************)
ITEM_DOCUMENT == "ITEM_DOCUMENT"
ITEM_STYLE == "ITEM_STYLE"
Ids == {"A", "B", "C"}
ItemTypes == {ITEM_DOCUMENT, ITEM_STYLE}

\* get_item_with_id returns None when no item has the identifier
None == [id |-> "None", type |-> "None", content |-> <<>>]

\* A spine entry is a bare identifier or a tuple (identifier, linear);
\* is_tuple is isinstance(spine_item, tuple).
SpineEntries ==
    {[is_tuple |-> FALSE, value |-> id] : id \in Ids}
        \cup {[is_tuple |-> TRUE, value |-> <<id, "yes">>] : id \in Ids}

SpinesOf(entries) == UNION {[1..n -> entries] : n \in 0..MaxSpine}

\* The item lists over the given contents; identifiers are unique in a package.
ItemLists(types, contents) ==
    LET recs == [id : Ids, type : types, content : contents]
    IN  UNION {{s \in [1..n -> recs] :
                   \A i, j \in 1..n : s[i].id = s[j].id => i = j}
               : n \in 0..Cardinality(Ids)}

\* item_id = spine_item[0] if isinstance(spine_item, tuple) else spine_item
SpineItemId(spine_item) ==
    IF spine_item.is_tuple THEN spine_item.value[1] ELSE spine_item.value

RECURSIVE FirstWithId(_, _)
FirstWithId(items, uid) ==
    IF items = <<>> THEN None
    ELSE IF items[1].id = uid THEN items[1]
         ELSE FirstWithId(Tail(items), uid)

\* book.get_item_with_id(item_id)
GetItemWithId(b, uid) == FirstWithId(b.items, uid)

(***************************************************************************)
(* iter_documents_in_order                                                 *)
(***************************************************************************)
\* SpineBody without seen_ids.add(item_id).
SpineBodyForgetsSeen(b, st, spine_item) ==
    LET item_id == SpineItemId(spine_item)
        item == GetItemWithId(b, item_id)
    IN  IF item # None /\ item.type = ITEM_DOCUMENT
        THEN [seen_ids |-> st.seen_ids,
              emitted |-> Append(st.emitted, item)]
        ELSE st

\* The body of "for spine_item in book.spine"; st is (seen_ids, emitted).
SpineBody(b, st, spine_item) ==
    LET item_id == SpineItemId(spine_item)
        item == GetItemWithId(b, item_id)
    IN  IF item # None /\ item.type = ITEM_DOCUMENT
        THEN [seen_ids |-> st.seen_ids \cup {item_id},
              emitted |-> Append(st.emitted, item)]
        ELSE st

\* The body of "for item in book.get_items_of_type(ITEM_DOCUMENT)", with the
\* filter of get_items_of_type applied to the item at hand.
FallbackBody(st, item) ==
    IF item.type = ITEM_DOCUMENT /\ item.id \notin st.seen_ids
    THEN [seen_ids |-> st.seen_ids,
          emitted |-> Append(st.emitted, item)]
    ELSE st

InitSpine ==
    /\ book \in [spine : SpinesOf(SpineEntries),
                 items : ItemLists(ItemTypes, {<<>>})]
    /\ seen_ids = {}
    /\ emitted = <<>>
    /\ spine_idx = 1
    /\ item_idx = 0
    /\ spine_pc = "spine"

IdleSpine ==
    /\ book = [spine |-> <<>>, items |-> <<>>]
    /\ seen_ids = {}
    /\ emitted = <<>>
    /\ spine_idx = 0
    /\ item_idx = 0
    /\ spine_pc = "idle"

\* one iteration of the spine loop
SpineStep ==
    /\ spine_pc = "spine"
    /\ spine_idx <= Len(book.spine)
    /\ LET r == SpineBody(book, [seen_ids |-> seen_ids, emitted |-> emitted],
                          book.spine[spine_idx])
       IN  /\ seen_ids' = r.seen_ids
           /\ emitted' = r.emitted
    /\ spine_idx' = spine_idx + 1
    /\ UNCHANGED <<book, item_idx, spine_pc>>
    /\ UNCHANGED notSpine

\* the spine is exhausted: the fallback loop begins
SpineExhausted ==
    /\ spine_pc = "spine"
    /\ spine_idx > Len(book.spine)
    /\ spine_pc' = "fallback"
    /\ item_idx' = 1
    /\ UNCHANGED <<book, seen_ids, emitted, spine_idx>>
    /\ UNCHANGED notSpine

\* one iteration of the fallback loop
FallbackStep ==
    /\ spine_pc = "fallback"
    /\ item_idx <= Len(book.items)
    /\ LET r == FallbackBody([seen_ids |-> seen_ids, emitted |-> emitted],
                             book.items[item_idx])
       IN  /\ seen_ids' = r.seen_ids
           /\ emitted' = r.emitted
    /\ item_idx' = item_idx + 1
    /\ UNCHANGED <<book, spine_idx, spine_pc>>
    /\ UNCHANGED notSpine

\* the generator is exhausted
FallbackDone ==
    /\ spine_pc = "fallback"
    /\ item_idx > Len(book.items)
    /\ spine_pc' = "done"
    /\ UNCHANGED <<book, seen_ids, emitted, spine_idx, item_idx>>
    /\ UNCHANGED notSpine

NextSpine == SpineStep \/ SpineExhausted \/ FallbackStep \/ FallbackDone

RECURSIVE FoldSpine(_, _, _)
FoldSpine(b, st, sp) ==
    IF sp = <<>> THEN st
    ELSE FoldSpine(b, SpineBody(b, st, sp[1]), Tail(sp))

RECURSIVE FoldFallback(_, _)
FoldFallback(st, items) ==
    IF items = <<>> THEN st
    ELSE FoldFallback(FallbackBody(st, items[1]), Tail(items))

\* Everything the generator yields for a book, as one sequence.
IterDocumentsInOrder(b) ==
    FoldFallback(FoldSpine(b, [seen_ids |-> {}, emitted |-> <<>>], b.spine),
                 b.items).emitted

(***************************************************************************)
(* epub_to_txt                                                             *)
(***************************************************************************)
\* What get_text yields for an item's content: blank only, one line, and
\* two lines with a gap and surrounding whitespace.
SampleTexts == {<<NL>>, <<"a">>, <<" ", "a", NL, NL, "a", NL>>}

\* Spine entries as epub.read_epub builds them: tuples.
TupleEntries == {e \in SpineEntries : e.is_tuple}

EpubBooks ==
    [spine : SpinesOf(TupleEntries),
     items : {s \in ItemLists(ItemTypes, SampleTexts) :
                 \A i \in 1..Len(s) :
                     s[i].type = ITEM_STYLE => s[i].content = <<"a">>}]

\* JoinBlocks with a single line break as the separator.
JoinBlocksSingleBreak(blocks) == Join(<<NL>>, blocks)

\* "\n\n".join(text_content)
JoinBlocks(blocks) == Join(<<NL, NL>>, blocks)

InitEpub ==
    /\ ebook \in EpubBooks
    /\ resolved = <<>>
    /\ text_content = <<>>
    /\ written = <<>>
    /\ epub_pc = "start"

IdleEpub ==
    /\ ebook = [spine |-> <<>>, items |-> <<>>]
    /\ resolved = <<>>
    /\ text_content = <<>>
    /\ written = <<>>
    /\ epub_pc = "idle"

\* book = epub.read_epub(epub_path); text_content = []; the generator is made
EpubRead ==
    /\ epub_pc = "start"
    /\ resolved' = IterDocumentsInOrder(ebook)
    /\ text_content' = <<>>
    /\ epub_pc' = "items"
    /\ UNCHANGED <<ebook, written>>
    /\ UNCHANGED notEpub

\* one iteration of "for item in iter_documents_in_order(book)"
EpubItem ==
    /\ epub_pc = "items"
    /\ Len(text_content) < Len(resolved)
    /\ LET item == resolved[Len(text_content) + 1]
           text == CleanText(item.content)
       IN  text_content' = Append(text_content, text)
    /\ UNCHANGED <<ebook, resolved, written, epub_pc>>
    /\ UNCHANGED notEpub

\* f.write("\n\n".join(text_content))
EpubWrite ==
    /\ epub_pc = "items"
    /\ Len(text_content) = Len(resolved)
    /\ written' = JoinBlocks(text_content)
    /\ epub_pc' = "done"
    /\ UNCHANGED <<ebook, resolved, text_content>>
    /\ UNCHANGED notEpub

NextEpub == EpubRead \/ EpubItem \/ EpubWrite

(***************************************************************************)
(* File names, as pathlib and str treat them.                              *)
(***************************************************************************)
\* ord(c), for the characters of the model's file names
Ord(c) ==
    CASE c = "." -> 46
      [] c = "B" -> 66
      [] c = "E" -> 69
      [] c = "P" -> 80
      [] c = "U" -> 85
      [] c = "a" -> 97
      [] c = "b" -> 98
      [] c = "e" -> 101
      [] c = "n" -> 110
      [] c = "o" -> 111
      [] c = "p" -> 112
      [] c = "s" -> 115
      [] c = "t" -> 116
      [] c = "u" -> 117
      [] c = "x" -> 120

\* str.lower(), one character
LowerChar(c) ==
    CASE c = "B" -> "b"
      [] c = "E" -> "e"
      [] c = "P" -> "p"
      [] c = "U" -> "u"
      [] OTHER -> c

\* str.lower()
Lower(s) == [i \in 1..Len(s) |-> LowerChar(s[i])]

RECURSIVE RFindDot(_, _)
\* name.rfind('.') + 1 searched from position i down; 0 when there is no dot
RFindDot(name, i) ==
    IF i = 0 THEN 0
    ELSE IF name[i] = "." THEN i ELSE RFindDot(name, i - 1)

\* PurePath.suffix: the last dot is neither the first nor the last character
Suffix(name) ==
    LET i == RFindDot(name, Len(name))
    IN  IF 1 < i /\ i < Len(name) THEN SubSeq(name, i, Len(name)) ELSE <<>>

\* PurePath.stem
Stem(name) ==
    LET i == RFindDot(name, Len(name))
    IN  IF 1 < i /\ i < Len(name) THEN SubSeq(name, 1, i - 1) ELSE name

RECURSIVE StrLess(_, _)
\* a < b on str: by code point, a proper prefix first
StrLess(a, b) ==
    IF b = <<>> THEN FALSE
    ELSE IF a = <<>> THEN TRUE
    ELSE IF Ord(a[1]) < Ord(b[1]) THEN TRUE
    ELSE IF Ord(a[1]) > Ord(b[1]) THEN FALSE
    ELSE StrLess(Tail(a), Tail(b))

\* Path.__lt__ for two entries of one directory
PathLess(p, q) == StrLess(p.name, q.name)

RECURSIVE InsertSorted(_, _)
InsertSorted(p, s) ==
    IF s = <<>> THEN <<p>>
    ELSE IF PathLess(p, s[1]) THEN <<p>> \o s
         ELSE <<s[1]>> \o InsertSorted(p, Tail(s))

RECURSIVE Sorted(_)
\* sorted(paths)
Sorted(paths) ==
    IF paths = <<>> THEN <<>>
    ELSE InsertSorted(paths[1], Sorted(Tail(paths)))

(***************************************************************************)
(* convert_directory                                                       *)
(***************************************************************************)
DOT_EPUB == <<".", "e", "p", "u", "b">>
DOT_TXT == <<".", "t", "x", "t">>

\* The entries a directory may hold: regular files and one subdirectory.
DirEntries ==
    {[name |-> <<"b", ".", "e", "p", "u", "b">>, is_file |-> TRUE],
     [name |-> <<"a", ".", "E", "P", "U", "B">>, is_file |-> TRUE],
     [name |-> <<"a", ".", "e", "p", "u", "b">>, is_file |-> TRUE],
     [name |-> <<"n", "o", "t", "e", "s", ".", "t", "x", "t">>,
      is_file |-> TRUE],
     [name |-> <<"s", "u", "b", ".", "e", "p", "u", "b">>,
      is_file |-> FALSE],
     [name |-> <<".", "e", "p", "u", "b">>, is_file |-> TRUE]}

\* input_dir.iterdir(): the entries of a directory, in any order
Listings ==
    UNION {{s \in [1..n -> DirEntries] :
               \A i, j \in 1..n : s[i] = s[j] => i = j}
           : n \in 0..Cardinality(DirEntries)}

\* IsEpubFile without .lower(): the extension is compared as written.
IsEpubFileCaseSensitive(path) == path.is_file /\ Suffix(path.name) = DOT_EPUB

\* path.is_file() and path.suffix.lower() == ".epub"
IsEpubFile(path) == path.is_file /\ Lower(Suffix(path.name)) = DOT_EPUB

\* output_dir / (epub_file.stem + ".txt")
TargetTxt(epub_file) == Stem(epub_file.name) \o DOT_TXT

\* sorted([path for path in input_dir.iterdir() if ...])
EpubFilesOf(listing) == Sorted(SelectSeq(listing, IsEpubFile))

\* PropagateFailure with the failure caught inside the loop: the batch goes
\* on with the next file.
SwallowFailure ==
    IF file_idx < Len(epub_files)
    THEN /\ file_idx' = file_idx + 1
         /\ dir_pc' = "read"
    ELSE /\ file_idx' = file_idx
         /\ dir_pc' = "returned"

\* An exception raised inside epub_to_txt leaves convert_directory: the loop
\* has no try/except.
PropagateFailure ==
    /\ dir_pc' = "raised"
    /\ file_idx' = file_idx

\* The file system after open(txt_path, "w") and a write of `content`.
WriteFile(fs, target, content) ==
    [t \in DOMAIN fs \cup {target} |->
        IF t = target THEN content ELSE fs[t]]

InitDir ==
    /\ input_is_dir \in BOOLEAN
    /\ dir_listing \in Listings
    /\ output_dir_exists \in BOOLEAN
    /\ epub_files = <<>>
    /\ file_idx = 0
    /\ out_files = <<>>
    /\ converted = <<>>
    /\ printed_no_files = FALSE
    /\ failed_at = 0
    /\ dir_pc = "start"

IdleDir ==
    /\ input_is_dir = FALSE
    /\ dir_listing = <<>>
    /\ output_dir_exists = FALSE
    /\ epub_files = <<>>
    /\ file_idx = 0
    /\ out_files = <<>>
    /\ converted = <<>>
    /\ printed_no_files = FALSE
    /\ failed_at = 0
    /\ dir_pc = "idle"

\* if not input_dir.is_dir(): raise ValueError
DirNotADirectory ==
    /\ dir_pc = "start"
    /\ ~input_is_dir
    /\ dir_pc' = "raised"
    /\ UNCHANGED <<input_is_dir, dir_listing, output_dir_exists, epub_files,
                   file_idx, out_files, converted, printed_no_files,
                   failed_at>>
    /\ UNCHANGED notDir

\* output_dir.mkdir(parents=True, exist_ok=True); epub_files = sorted(...)
DirScan ==
    /\ dir_pc = "start"
    /\ input_is_dir
    /\ output_dir_exists' = TRUE
    /\ epub_files' = EpubFilesOf(dir_listing)
    /\ dir_pc' = "scanned"
    /\ UNCHANGED <<input_is_dir, dir_listing, file_idx, out_files, converted,
                   printed_no_files, failed_at>>
    /\ UNCHANGED notDir

\* if not epub_files: print("No EPUB files found ..."); return
DirNoFiles ==
    /\ dir_pc = "scanned"
    /\ epub_files = <<>>
    /\ printed_no_files' = TRUE
    /\ dir_pc' = "returned"
    /\ UNCHANGED <<input_is_dir, dir_listing, output_dir_exists, epub_files,
                   file_idx, out_files, converted, failed_at>>
    /\ UNCHANGED notDir

\* the loop over epub_files begins with the first file
DirLoopBegin ==
    /\ dir_pc = "scanned"
    /\ epub_files # <<>>
    /\ file_idx' = 1
    /\ dir_pc' = "read"
    /\ UNCHANGED <<input_is_dir, dir_listing, output_dir_exists, epub_files,
                   out_files, converted, printed_no_files, failed_at>>
    /\ UNCHANGED notDir

\* epub_to_txt: the book is read and every item normalized
FileReadOk ==
    /\ dir_pc = "read"
    /\ dir_pc' = "write"
    /\ UNCHANGED <<input_is_dir, dir_listing, output_dir_exists, epub_files,
                   file_idx, out_files, converted, printed_no_files,
                   failed_at>>
    /\ UNCHANGED notDir

\* epub_to_txt: read_epub or the parser raises (a malformed file)
FileReadFails ==
    /\ dir_pc = "read"
    /\ failed_at' = file_idx
    /\ PropagateFailure
    /\ UNCHANGED <<input_is_dir, dir_listing, output_dir_exists, epub_files,
                   out_files, converted, printed_no_files>>
    /\ UNCHANGED notDir

\* epub_to_txt: open(txt_path, "w") raises; nothing is created
FileOpenFails ==
    /\ dir_pc = "write"
    /\ failed_at' = file_idx
    /\ PropagateFailure
    /\ UNCHANGED <<input_is_dir, dir_listing, output_dir_exists, epub_files,
                   out_files, converted, printed_no_files>>
    /\ UNCHANGED notDir

\* epub_to_txt: the file is opened (and truncated), then f.write raises
FileWriteFails ==
    /\ dir_pc = "write"
    /\ out_files' = WriteFile(out_files, TargetTxt(epub_files[file_idx]),
                              [from |-> epub_files[file_idx].name,
                               complete |-> FALSE])
    /\ failed_at' = file_idx
    /\ PropagateFailure
    /\ UNCHANGED <<input_is_dir, dir_listing, output_dir_exists, epub_files,
                   converted, printed_no_files>>
    /\ UNCHANGED notDir

\* epub_to_txt writes the text and returns; the loop goes on or ends
FileWriteOk ==
    /\ dir_pc = "write"
    /\ out_files' = WriteFile(out_files, TargetTxt(epub_files[file_idx]),
                              [from |-> epub_files[file_idx].name,
                               complete |-> TRUE])
    /\ converted' = Append(converted, epub_files[file_idx].name)
    /\ IF file_idx < Len(epub_files)
       THEN /\ file_idx' = file_idx + 1
            /\ dir_pc' = "read"
       ELSE /\ file_idx' = file_idx
            /\ dir_pc' = "returned"
    /\ UNCHANGED <<input_is_dir, dir_listing, output_dir_exists, epub_files,
                   printed_no_files, failed_at>>
    /\ UNCHANGED notDir

NextDir ==
    \/ DirNotADirectory
    \/ DirScan
    \/ DirNoFiles
    \/ DirLoopBegin
    \/ FileReadOk
    \/ FileReadFails
    \/ FileOpenFails
    \/ FileWriteFails
    \/ FileWriteOk

(***************************************************************************)
(* main                                                                    *)
(***************************************************************************)
\* The value argparse leaves for an option that was not given.
NoneArg == "<None>"

\* What an option can hold: None, the empty string, a path.
ArgValues == {NoneArg, "", "p"}

\* bool(v) of an option's value
Truthy(v) == v # NoneArg /\ v # ""

\* a or b
Or(a, b) == IF Truthy(a) THEN a ELSE b

\* file_mode = args.input_file or args.output_file
FileMode(a) == Or(a.input_file, a.output_file)

\* dir_mode = args.input_dir or args.output_dir
DirMode(a) == Or(a.input_dir, a.output_dir)

NoCall == [fn |-> "none", arg1 |-> NoneArg, arg2 |-> NoneArg]

InitMain ==
    /\ args \in [input_file : ArgValues, output_file : ArgValues,
                 input_dir : ArgValues, output_dir : ArgValues]
    /\ called = NoCall
    /\ main_pc = "start"

IdleMain ==
    /\ args = [input_file |-> NoneArg, output_file |-> NoneArg,
               input_dir |-> NoneArg, output_dir |-> NoneArg]
    /\ called = NoCall
    /\ main_pc = "idle"

\* if file_mode and dir_mode: parser.error(...), which exits
MainBothModes ==
    /\ main_pc = "start"
    /\ Truthy(FileMode(args)) /\ Truthy(DirMode(args))
    /\ main_pc' = "usage_error"
    /\ UNCHANGED <<args, called>>
    /\ UNCHANGED notMain

\* the file branch with one of the two options missing: parser.error
MainFileIncomplete ==
    /\ main_pc = "start"
    /\ ~(Truthy(FileMode(args)) /\ Truthy(DirMode(args)))
    /\ Truthy(Or(args.input_file, args.output_file))
    /\ ~(Truthy(args.input_file) /\ Truthy(args.output_file))
    /\ main_pc' = "usage_error"
    /\ UNCHANGED <<args, called>>
    /\ UNCHANGED notMain

\* the file branch: epub_to_txt(args.input_file, args.output_file)
MainFileConvert ==
    /\ main_pc = "start"
    /\ ~(Truthy(FileMode(args)) /\ Truthy(DirMode(args)))
    /\ Truthy(Or(args.input_file, args.output_file))
    /\ Truthy(args.input_file) /\ Truthy(args.output_file)
    /\ called' = [fn |-> "epub_to_txt", arg1 |-> args.input_file,
                  arg2 |-> args.output_file]
    /\ main_pc' = "done"
    /\ UNCHANGED args
    /\ UNCHANGED notMain

\* the directory branch with one of the two options missing: parser.error
MainDirIncomplete ==
    /\ main_pc = "start"
    /\ ~(Truthy(FileMode(args)) /\ Truthy(DirMode(args)))
    /\ ~Truthy(Or(args.input_file, args.output_file))
    /\ Truthy(Or(args.input_dir, args.output_dir))
    /\ ~(Truthy(args.input_dir) /\ Truthy(args.output_dir))
    /\ main_pc' = "usage_error"
    /\ UNCHANGED <<args, called>>
    /\ UNCHANGED notMain

\* the directory branch: convert_directory(args.input_dir, args.output_dir)
MainDirConvert ==
    /\ main_pc = "start"
    /\ ~(Truthy(FileMode(args)) /\ Truthy(DirMode(args)))
    /\ ~Truthy(Or(args.input_file, args.output_file))
    /\ Truthy(Or(args.input_dir, args.output_dir))
    /\ Truthy(args.input_dir) /\ Truthy(args.output_dir)
    /\ called' = [fn |-> "convert_directory", arg1 |-> args.input_dir,
                  arg2 |-> args.output_dir]
    /\ main_pc' = "done"
    /\ UNCHANGED args
    /\ UNCHANGED notMain

\* the else branch: parser.error
MainNoMode ==
    /\ main_pc = "start"
    /\ ~Truthy(Or(args.input_file, args.output_file))
    /\ ~Truthy(Or(args.input_dir, args.output_dir))
    /\ main_pc' = "usage_error"
    /\ UNCHANGED <<args, called>>
    /\ UNCHANGED notMain

NextMain ==
    \/ MainBothModes
    \/ MainFileIncomplete
    \/ MainFileConvert
    \/ MainDirIncomplete
    \/ MainDirConvert
    \/ MainNoMode

(***************************************************************************)
(* The specifications, one per part of the program.                        *)
(***************************************************************************)
InitCleanOnly ==
    /\ InitClean
    /\ IdleSpine
    /\ IdleEpub
    /\ IdleDir
    /\ IdleMain

SpecClean == InitCleanOnly /\ [][NextClean]_vars

InitSpineOnly ==
    /\ IdleClean
    /\ InitSpine
    /\ IdleEpub
    /\ IdleDir
    /\ IdleMain

SpecSpine == InitSpineOnly /\ [][NextSpine]_vars

InitEpubOnly ==
    /\ IdleClean
    /\ IdleSpine
    /\ InitEpub
    /\ IdleDir
    /\ IdleMain

SpecEpub == InitEpubOnly /\ [][NextEpub]_vars

InitDirOnly ==
    /\ IdleClean
    /\ IdleSpine
    /\ IdleEpub
    /\ InitDir
    /\ IdleMain

SpecDir == InitDirOnly /\ [][NextDir]_vars

InitMainOnly ==
    /\ IdleClean
    /\ IdleSpine
    /\ IdleEpub
    /\ IdleDir
    /\ InitMain

SpecMain == InitMainOnly /\ [][NextMain]_vars

(***************************************************************************)
(* Properties of clean_text_preserving_gaps (SpecClean).                   *)
(***************************************************************************)
\* A line with nothing but whitespace in it.
AllSpace(l) == \A i \in 1..Len(l) : l[i] \in {" ", NL, CR}

RECURSIVE SplitNLFrom(_, _, _, _)
SplitNLFrom(s, i, cur, acc) ==
    IF i > Len(s) THEN Append(acc, cur)
    ELSE IF s[i] = NL THEN SplitNLFrom(s, i + 1, <<>>, Append(acc, cur))
         ELSE SplitNLFrom(s, i + 1, Append(cur, s[i]), acc)

\* The lines of a text as a reader sees them: the pieces between line breaks;
\* the empty text has none.
OutLines(s) == IF s = <<>> THEN <<>> ELSE SplitNLFrom(s, 1, <<>>, <<>>)

NoAdjacentBlank(ls) ==
    \A i \in 1..(Len(ls) - 1) : ~(AllSpace(ls[i]) /\ AllSpace(ls[i + 1]))

\* The indices of the raw lines that are not blank, in order.
NonBlankIdx(ls) ==
    SelectSeq([i \in 1..Len(ls) |-> i], LAMBDA i : ~AllSpace(ls[i]))

\* A non-blank line from its first to its last non-whitespace character.
Trimmed(l) ==
    LET ink == {i \in 1..Len(l) : l[i] \notin {" ", NL, CR}}
        lo == CHOOSE i \in ink : \A j \in ink : i <= j
        hi == CHOOSE i \in ink : \A j \in ink : j <= i
    IN  SubSeq(l, lo, hi)

\* Where the k-th non-blank raw line stands in the output: after the k - 1
\* before it and one empty line for each gap between them.
OutPos(nb, k) ==
    k + Cardinality({j \in 2..k : nb[j] > nb[j - 1] + 1})

\* C3: the accumulator never holds two adjacent empty entries, and the
\* returned text never has two consecutive empty lines.
C3_NoConsecutiveEmptyLines ==
    /\ NoAdjacentBlank(cleaned)
    /\ clean_pc = "done" => NoAdjacentBlank(OutLines(clean_result))

\* C3 witness: a run of two blank raw lines after content was collapsed to
\* one empty line of the returned text.
C3_Witness ==
    /\ clean_pc = "done"
    /\ clean_pass = 1
    /\ \E i \in 2..(Len(lines) - 2) :
          /\ ~AllSpace(lines[i - 1])
          /\ AllSpace(lines[i]) /\ AllSpace(lines[i + 1])
          /\ ~AllSpace(lines[i + 2])
    /\ \E j \in 1..Len(OutLines(clean_result)) :
          OutLines(clean_result)[j] = <<>>

\* C4: the returned text never starts or ends with an empty line, and a
\* text of blank lines only (or no lines) yields the empty text.
C4_NoLeadingTrailingEmptyLine ==
    clean_pc = "done" =>
        LET ol == OutLines(clean_result)
        IN  /\ clean_result # <<>> =>
                  ~AllSpace(ol[1]) /\ ~AllSpace(ol[Len(ol)])
            /\ (\A i \in 1..Len(lines) : AllSpace(lines[i])) =>
                  clean_result = <<>>

\* C4 witness: raw lines that begin and end with a blank line, the trailing
\* one appended to the accumulator, around content.
C4_Witness ==
    /\ clean_pc = "done"
    /\ clean_pass = 1
    /\ Len(lines) >= 3
    /\ AllSpace(lines[1]) /\ AllSpace(lines[Len(lines)])
    /\ cleaned # <<>> /\ cleaned[Len(cleaned)] = <<>>
    /\ clean_result # <<>>

\* C5: normalizing the text the normalization returned gives that text back.
C5_Idempotent ==
    (clean_pc = "done" /\ clean_pass = 2) => clean_result = first_result

\* C5 witness: the second pass has ended on a returned text that holds a
\* preserved gap between two lines.
C5_Witness ==
    /\ clean_pc = "done"
    /\ clean_pass = 2
    /\ Len(lines) = 3 /\ lines[2] = <<>>
    /\ clean_result # <<>>

\* C9: the non-blank raw lines appear trimmed and in order; between two
\* successive ones there is exactly one empty line if a blank raw line lay
\* between them and none otherwise; nothing precedes the first or follows
\* the last.
C9_GapsPreserved ==
    clean_pc = "done" =>
        LET ol == OutLines(clean_result)
            nb == NonBlankIdx(lines)
            n == Len(nb)
            at == {OutPos(nb, k) : k \in 1..n}
        IN  /\ Len(ol) = IF n = 0 THEN 0 ELSE OutPos(nb, n)
            /\ \A k \in 1..n :
                  OutPos(nb, k) <= Len(ol)
                      /\ ol[OutPos(nb, k)] = Trimmed(lines[nb[k]])
            /\ \A p \in 1..Len(ol) : p \notin at => ol[p] = <<>>

\* C9 witness: a leading blank run, two adjacent non-blank lines, then a
\* blank line before a third.
C9_Witness ==
    /\ clean_pc = "done"
    /\ clean_pass = 1
    /\ Len(lines) = 5
    /\ AllSpace(lines[1]) /\ ~AllSpace(lines[2]) /\ ~AllSpace(lines[3])
    /\ AllSpace(lines[4]) /\ ~AllSpace(lines[5])
    /\ Len(OutLines(clean_result)) = 4

(***************************************************************************)
(* Properties of iter_documents_in_order (SpecSpine).                      *)
(***************************************************************************)
IdsOf(items) == [i \in 1..Len(items) |-> items[i].id]

\* The identifiers the spine names, in declared order.
DeclaredIds(b) ==
    [i \in 1..Len(b.spine) |->
        IF b.spine[i].is_tuple THEN Head(b.spine[i].value)
        ELSE b.spine[i].value]

\* The identifiers of the package's document-type items.
DocumentIds(b) ==
    {b.items[i].id : i \in {j \in 1..Len(b.items) :
                               b.items[j].type = ITEM_DOCUMENT}}

\* The documents the first n spine entries name, in declared order.
DeclaredDocs(b, n) ==
    SelectSeq(SubSeq(DeclaredIds(b), 1, n), LAMBDA id : id \in DocumentIds(b))

\* The documents the spine does not name, in enumeration order.
UndeclaredDocs(b) ==
    SelectSeq(IdsOf(b.items),
              LAMBDA id : /\ id \in DocumentIds(b)
                          /\ \A i \in 1..Len(b.spine) : DeclaredIds(b)[i] # id)

\* C1: the generator emits every document-type item exactly once and nothing
\* else: no loss, no duplication.
C1_EveryDocumentExactlyOnce ==
    spine_pc = "done" =>
        /\ {emitted[i].id : i \in 1..Len(emitted)} = DocumentIds(book)
        /\ \A i, j \in 1..Len(emitted) :
              emitted[i].id = emitted[j].id => i = j

\* C2: the emitted sequence is the spine's documents in declared order, then,
\* only once the spine is exhausted, the documents the spine does not name in
\* enumeration order.
C2_SpineOrderThenFallback ==
    /\ spine_pc = "spine" =>
          IdsOf(emitted) = DeclaredDocs(book, spine_idx - 1)
    /\ spine_pc = "fallback" =>
          /\ spine_idx > Len(book.spine)
          /\ Len(emitted) >= Len(DeclaredDocs(book, Len(book.spine)))
          /\ SubSeq(IdsOf(emitted), 1,
                    Len(DeclaredDocs(book, Len(book.spine))))
                = DeclaredDocs(book, Len(book.spine))
    /\ spine_pc = "done" =>
          IdsOf(emitted)
              = DeclaredDocs(book, Len(book.spine)) \o UndeclaredDocs(book)

\* C2 witness: the spine names B then A, the package enumerates a further
\* document C first, and the generator has emitted B, A, C.
C2_Witness ==
    /\ spine_pc = "done"
    /\ DeclaredIds(book) = <<"B", "A">>
    /\ Len(book.items) = 3 /\ book.items[1].id = "C"
    /\ IdsOf(emitted) = <<"B", "A", "C">>

(***************************************************************************)
(* Properties of epub_to_txt (SpecEpub).                                   *)
(***************************************************************************)
RECURSIVE BlockOffset(_, _)
\* The number of characters before block i when every block before it is
\* followed by two line breaks.
BlockOffset(blocks, i) ==
    IF i = 1 THEN 0
    ELSE BlockOffset(blocks, i - 1) + Len(blocks[i - 1]) + 2

\* C8: the written text is the blocks of the resolved items, one per item in
\* resolved order, each pair of adjacent blocks separated by exactly one
\* empty line (two line breaks), an empty block included.
C8_BlocksSeparatedByOneEmptyLine ==
    epub_pc = "done" =>
        LET n == Len(text_content)
            off(i) == BlockOffset(text_content, i)
        IN  /\ n = Len(resolved)
            /\ IdsOf(resolved) = DeclaredDocs(ebook, Len(ebook.spine))
                                     \o UndeclaredDocs(ebook)
            /\ Len(written)
                  = IF n = 0 THEN 0 ELSE off(n) + Len(text_content[n])
            /\ \A i \in 1..n :
                  SubSeq(written, off(i) + 1, off(i) + Len(text_content[i]))
                      = text_content[i]
            /\ \A i \in 1..(n - 1) :
                  LET e == off(i) + Len(text_content[i])
                  IN  /\ written[e + 1] = NL
                      /\ written[e + 2] = NL
                      /\ text_content[i] # <<>> => written[e] # NL
                      /\ text_content[i + 1] # <<>> => written[e + 3] # NL

\* C8 witness: three items were written, the middle one an empty block
\* between two non-empty ones.
C8_Witness ==
    /\ epub_pc = "done"
    /\ Len(text_content) = 3
    /\ text_content[1] # <<>>
    /\ text_content[2] = <<>>
    /\ text_content[3] # <<>>
    /\ Len(written) = Len(text_content[1]) + Len(text_content[3]) + 4

(***************************************************************************)
(* Properties of convert_directory (SpecDir).                              *)
(***************************************************************************)
RangeOf(s) == {s[i] : i \in 1..Len(s)}

\* The extension of a file name: from its last dot on, when that dot is
\* neither the first nor the last character.
ExtensionOf(name) ==
    LET dots == {i \in 2..(Len(name) - 1) : name[i] = "."}
    IN  IF dots = {} \/ name[Len(name)] = "." THEN <<>>
        ELSE SubSeq(name, CHOOSE i \in dots : \A j \in dots : j <= i,
                    Len(name))

\* The name without its extension.
BaseNameOf(name) == SubSeq(name, 1, Len(name) - Len(ExtensionOf(name)))

HasEpubExtension(name) ==
    /\ Len(ExtensionOf(name)) = 5
    /\ ExtensionOf(name)[1] = "."
    /\ ExtensionOf(name)[2] \in {"e", "E"}
    /\ ExtensionOf(name)[3] \in {"p", "P"}
    /\ ExtensionOf(name)[4] \in {"u", "U"}
    /\ ExtensionOf(name)[5] \in {"b", "B"}

\* Strictly ascending by code point.
Ascending(names) ==
    \A i \in 1..(Len(names) - 1) : StrLess(names[i], names[i + 1])

\* What the directory run did, for a set of names it was to convert.
ConvertedExactly(want) ==
    /\ RangeOf(converted) = want
    /\ Len(converted) = Cardinality(want)
    /\ Ascending(converted)
    /\ DOMAIN out_files = {BaseNameOf(n) \o DOT_TXT : n \in want}
    /\ \A t \in DOMAIN out_files : out_files[t].complete
    /\ want = {} => printed_no_files /\ converted = <<>>
    /\ want # {} => ~printed_no_files

\* C7 as stated: every entry with a case-insensitive .epub extension is
\* converted, each once, in sorted order, with one output file per converted
\* input; no match is reported and is no error.
C7_AsStated ==
    dir_pc = "returned" =>
        LET want == {e.name : e \in {x \in RangeOf(dir_listing) :
                                        HasEpubExtension(x.name)}}
        IN  /\ ConvertedExactly(want)
            /\ Cardinality(DOMAIN out_files) = Len(converted)

\* C7 amended: the entries converted are the regular files with a
\* case-insensitive .epub extension, each once, in sorted order, each written
\* to <base name>.txt (inputs that share a base name write the same file); no
\* match is reported and is no error.
C7_RegularEpubFilesConverted ==
    dir_pc = "returned" =>
        LET want == {e.name : e \in {x \in RangeOf(dir_listing) :
                                        x.is_file /\ HasEpubExtension(x.name)}}
        IN  /\ ConvertedExactly(want)
            /\ \A i \in 1..Len(converted) :
                  \E t \in DOMAIN out_files :
                      t = BaseNameOf(converted[i]) \o DOT_TXT

\* C7 witness: b.epub, a.EPUB and notes.txt, listed in that order, produced
\* exactly a.txt and b.txt.
C7_Witness ==
    /\ dir_pc = "returned"
    /\ [i \in 1..Len(dir_listing) |-> dir_listing[i].name]
          = << <<"b", ".", "e", "p", "u", "b">>,
               <<"a", ".", "E", "P", "U", "B">>,
               <<"n", "o", "t", "e", "s", ".", "t", "x", "t">> >>
    /\ converted = << <<"a", ".", "E", "P", "U", "B">>,
                      <<"b", ".", "e", "p", "u", "b">> >>
    /\ DOMAIN out_files = {<<"a", ".", "t", "x", "t">>,
                           <<"b", ".", "t", "x", "t">>}

\* The last file before position k that was written to target t, or 0.
LastWriter(t, k) ==
    LET w == {j \in 1..(k - 1) : TargetTxt(epub_files[j]) = t}
    IN  IF w = {} THEN 0 ELSE CHOOSE j \in w : \A i \in w : i <= j

Given(v) == v # NoneArg

\* C6: a conversion is attempted only when exactly one complete pair of
\* options is given and no option of the other mode; anything else ends in a
\* usage error with neither function called.
C6_ConvertsOnlyOnOneCompletePair ==
    LET file_pair == Given(args.input_file) /\ Given(args.output_file)
        dir_pair == Given(args.input_dir) /\ Given(args.output_dir)
        any_file == Given(args.input_file) \/ Given(args.output_file)
        any_dir == Given(args.input_dir) \/ Given(args.output_dir)
        one_pair == (file_pair /\ ~any_dir) \/ (dir_pair /\ ~any_file)
    IN  /\ called.fn = "epub_to_txt" => file_pair /\ ~any_dir
        /\ called.fn = "convert_directory" => dir_pair /\ ~any_file
        /\ (main_pc \in {"done", "usage_error"} /\ ~one_pair) =>
              main_pc = "usage_error" /\ called = NoCall

=============================================================================
